---- MODULE Spec2Model ----
(***************************************************************************)
(* pypredicate.py: first-order formulas, negation normal form (to_nnf) and *)
(* standardized variable form (to_svf).                                    *)
(*                                                                         *)
(* Formula and term nodes are records tagged with the name of their class. *)
(* The only field the program ever assigns after construction is          *)
(* Variable.name (lines 187, 213), so a Variable is an object: a record    *)
(* holding an identity, and "heap" maps each identity to the current name. *)
(* Two references to the same Variable object hold the same identity.      *)
(* Names are sequences of one-character strings.                           *)
(***************************************************************************)
EXTENDS Integers, Sequences, FiniteSets, TLC

VARIABLES
    heap,           \* identity of a Variable object -> its current name
    f,              \* the raw formula built by the caller
    g,              \* what to_nnf(f) returned or raised; NotCalled before
    pc,             \* "raw", "nnf", "svf", "returned", "failed"
    arg,            \* the formula passed to to_svf
    node,           \* to_svf's local node: the clone it renames
    it,             \* position of the generator bound_iter(node)
    already_bound,  \* to_svf's local set of names
    err             \* message of the exception that ended the run

vars == <<heap, f, g, pc, arg, node, it, already_bound, err>>

\* Bound of the exhaustive input set: connective and quantifier nodes per formula.
MaxNodes == 3

-----------------------------------------------------------------------------
(* Constructors *)

Predicate(name, arity) == [name |-> name, arity |-> arity]

Function(name, arity) == [name |-> name, arity |-> arity]

FunctionalTerm(function, terms) ==
    [kind |-> "FunctionalTerm", function |-> function, terms |-> terms]

AtomicWFF(predicate, terms) ==
    [kind |-> "AtomicWFF", predicate |-> predicate, terms |-> terms]

NotWFF(child) == [kind |-> "NotWFF", child |-> child]

AndWFF(children) == [kind |-> "AndWFF", children |-> children]

OrWFF(children) == [kind |-> "OrWFF", children |-> children]

ForAllWFF(bound, child) == [kind |-> "ForAllWFF", bound |-> bound, child |-> child]

ThereExistsWFF(bound, child) ==
    [kind |-> "ThereExistsWFF", bound |-> bound, child |-> child]

\* Instances of the abstract base classes: nodes outside the closed variant set.
BaseTerm == [kind |-> "Term"]

BaseWFF == [kind |-> "WFF"]

IsQuantifier(n) == n.kind \in {"ForAllWFF", "ThereExistsWFF"}

-----------------------------------------------------------------------------
(* Variable objects of the caller *)

\* The names of the caller's Variable objects; object i carries OrigHeap[i].
OrigHeap == << <<"x">>, <<"y">>, <<"z">>, <<"x", "0">>, <<"x", "9">> >>

Variable(name) ==
    [kind |-> "Variable", id |-> CHOOSE i \in DOMAIN OrigHeap : OrigHeap[i] = name]

x == Variable(<<"x">>)

x0 == Variable(<<"x", "0">>)

x9 == Variable(<<"x", "9">>)

y == Variable(<<"y">>)

z == Variable(<<"z">>)

p == Predicate("p", 1)

q == Predicate("q", 1)

r == Predicate("r", 2)

fn == Function("f", 1)

\* Variable.__eq__: equality of the names the two objects carry now.
Variable_eq(a, b, h) == h[a.id] = h[b.id]

\* old_var in node.bound
InBound(v, bound, h) == \E i \in DOMAIN bound : Variable_eq(bound[i], v, h)

-----------------------------------------------------------------------------
(* __str__: the rendering, as the sequence of its characters and tokens *)

RECURSIVE Join(_, _)
Join(strs, sep) ==
    IF strs = <<>> THEN <<>>
    ELSE IF Len(strs) = 1 THEN Head(strs)
    ELSE Head(strs) \o sep \o Join(Tail(strs), sep)

RECURSIVE str(_, _)
Applied(symbol, terms, h) ==
    IF symbol.arity = 0 THEN <<symbol.name>>
    ELSE <<symbol.name, "(">>
         \o Join([i \in DOMAIN terms |-> str(terms[i], h)], <<", ">>)
         \o <<")">>

Quantified(letter, n, h) ==
    <<letter>> \o Join([i \in DOMAIN n.bound |-> str(n.bound[i], h)], <<",">>)
    \o <<":", "(">> \o str(n.child, h) \o <<")">>

Bracketed(n, sep, h) ==
    <<"(">> \o Join([i \in DOMAIN n.children |-> str(n.children[i], h)], sep)
    \o <<")">>

str(n, h) ==
    CASE n.kind = "Variable" -> h[n.id]
      [] n.kind = "FunctionalTerm" -> Applied(n.function, n.terms, h)
      [] n.kind = "AtomicWFF" -> Applied(n.predicate, n.terms, h)
      [] n.kind = "NotWFF" -> <<"~">> \o str(n.child, h)
      [] n.kind = "AndWFF" -> Bracketed(n, <<" & ">>, h)
      [] n.kind = "OrWFF" -> Bracketed(n, <<" | ">>, h)
      [] n.kind = "ForAllWFF" -> Quantified("A ", n, h)
      [] n.kind = "ThereExistsWFF" -> Quantified("E ", n, h)

-----------------------------------------------------------------------------
(* clone: a call returns [ok, n, h]: whether it returned, the copy, and the  *)
(* heap with the Variable objects the copy allocated.                       *)

\* A sharing copy: the Variable itself is handed back.
Variable_clone_shared(v, h) == [ok |-> TRUE, n |-> v, h |-> h]

Variable_clone(v, h) ==
    [ok |-> TRUE,
     n |-> [kind |-> "Variable", id |-> Len(h) + 1],
     h |-> Append(h, h[v.id])]

RECURSIVE clone(_, _)
RECURSIVE CloneEach(_, _)
\* [t.clone() for t in nodes], left to right; the first raise ends it.
CloneEach(nodes, h) ==
    IF nodes = <<>> THEN [ok |-> TRUE, n |-> <<>>, h |-> h]
    ELSE LET first == clone(Head(nodes), h)
         IN  IF ~first.ok THEN [ok |-> FALSE, n |-> <<>>, h |-> first.h]
             ELSE LET rest == CloneEach(Tail(nodes), first.h)
                  IN  [ok |-> rest.ok, n |-> <<first.n>> \o rest.n, h |-> rest.h]

clone(n, h) ==
    CASE n.kind = "Variable" -> Variable_clone(n, h)
      [] n.kind \in {"FunctionalTerm", "AtomicWFF"} ->
            LET ts == CloneEach(n.terms, h)
            IN  [ok |-> ts.ok, n |-> [n EXCEPT !.terms = ts.n], h |-> ts.h]
      [] n.kind = "NotWFF" ->
            LET c == clone(n.child, h)
            IN  [ok |-> c.ok, n |-> [n EXCEPT !.child = c.n], h |-> c.h]
      [] n.kind \in {"AndWFF", "OrWFF"} ->
            LET cs == CloneEach(n.children, h)
            IN  [ok |-> cs.ok, n |-> [n EXCEPT !.children = cs.n], h |-> cs.h]
      [] IsQuantifier(n) ->
            LET bs == CloneEach(n.bound, h)
                c == IF bs.ok THEN clone(n.child, bs.h) ELSE bs
            IN  [ok |-> c.ok, n |-> [n EXCEPT !.bound = bs.n, !.child = c.n], h |-> c.h]
      \* Term.clone, WFF.clone: raise NotImplementedError()
      [] n.kind \in {"Term", "WFF"} -> [ok |-> FALSE, n |-> n, h |-> h]

-----------------------------------------------------------------------------
(* to_nnf: returns a formula, or Raised(type) for the exception it raises *)

Raised(type) == [kind |-> "Raised", type |-> type]

IsRaised(n) == n.kind = "Raised"

\* A node built from the results of the recursive calls of a list
\* comprehension: the first exception raised, left to right, ends it.
Built(results, wff) ==
    IF \E i \in DOMAIN results : IsRaised(results[i])
    THEN results[CHOOSE i \in DOMAIN results :
                    /\ IsRaised(results[i])
                    /\ \A j \in DOMAIN results : IsRaised(results[j]) => i <= j]
    ELSE wff

RECURSIVE to_nnf(_)
\* The negation is left on the quantifier instead of being pushed inside.
NegatedQuantifier_kept(child) ==
    LET inner == to_nnf(child.child)
    IN  IF child.kind = "ForAllWFF"
        THEN Built(<<inner>>, ThereExistsWFF(child.bound, NotWFF(inner)))
        ELSE Built(<<inner>>, ForAllWFF(child.bound, NotWFF(inner)))

\* Lines 161-164: a negated quantifier.
NegatedQuantifier(child) ==
    LET inner == to_nnf(NotWFF(child.child))
    IN  IF child.kind = "ForAllWFF"
        THEN Built(<<inner>>, ThereExistsWFF(child.bound, inner))
        ELSE Built(<<inner>>, ForAllWFF(child.bound, inner))

\* De Morgan without the change of connective.
NegatedJunction_same(child) ==
    LET inner == [i \in DOMAIN child.children |-> to_nnf(NotWFF(child.children[i]))]
    IN  IF child.kind = "AndWFF"
        THEN Built(inner, AndWFF(inner))
        ELSE Built(inner, OrWFF(inner))

\* De Morgan skipped: the negation stays on the conjunction or disjunction.
NegatedJunction_unpushed(child) ==
    LET inner == [i \in DOMAIN child.children |-> to_nnf(child.children[i])]
    IN  IF child.kind = "AndWFF"
        THEN Built(inner, NotWFF(AndWFF(inner)))
        ELSE Built(inner, NotWFF(OrWFF(inner)))

\* Lines 157-160: a negated conjunction or disjunction.
NegatedJunction(child) ==
    LET inner == [i \in DOMAIN child.children |-> to_nnf(NotWFF(child.children[i]))]
    IN  IF child.kind = "AndWFF"
        THEN Built(inner, OrWFF(inner))
        ELSE Built(inner, AndWFF(inner))

\* Lines 153-154: a double negation.
DoubleNegation(child) == to_nnf(child.child)

to_nnf(n) ==
    CASE n.kind = "AtomicWFF" -> n
      [] n.kind = "AndWFF" ->
            LET cs == [i \in DOMAIN n.children |-> to_nnf(n.children[i])]
            IN  Built(cs, AndWFF(cs))
      [] n.kind = "OrWFF" ->
            LET cs == [i \in DOMAIN n.children |-> to_nnf(n.children[i])]
            IN  Built(cs, OrWFF(cs))
      [] n.kind = "ForAllWFF" ->
            LET c == to_nnf(n.child) IN Built(<<c>>, ForAllWFF(n.bound, c))
      [] n.kind = "ThereExistsWFF" ->
            LET c == to_nnf(n.child) IN Built(<<c>>, ThereExistsWFF(n.bound, c))
      [] n.kind = "NotWFF" ->
            LET child == n.child
            IN  CASE child.kind = "NotWFF" -> DoubleNegation(child)
                  [] child.kind = "AtomicWFF" -> n
                  [] child.kind \in {"AndWFF", "OrWFF"} -> NegatedJunction(child)
                  [] IsQuantifier(child) -> NegatedQuantifier(child)
                  [] OTHER -> Raised(child.kind)
      [] OTHER -> Raised(n.kind)

-----------------------------------------------------------------------------
(* to_svf: its nested functions; substitute_var returns [ok, h]: whether it  *)
(* returned (FALSE: it raised "Recursive Binding") and the heap it left.     *)

\* node==old_var ignored: every Variable reached is renamed.
Matches_any(n, old_var, h) == TRUE

\* Line 186: isinstance(node, Variable) and node==old_var, for a Variable.
Matches(n, old_var, h) == Variable_eq(n, old_var, h)

\* Lines 175-176: a quantifier that binds old_var again.
Rebinds(n, old_var, h) == IsQuantifier(n) /\ InBound(old_var, n.bound, h)

RECURSIVE substitute_var(_, _, _, _)
RECURSIVE SubstituteEach(_, _, _, _)
\* for t in nodes: substitute_var(t, old_var, new_var_name)
SubstituteEach(nodes, old_var, new_var_name, h) ==
    IF nodes = <<>> THEN [ok |-> TRUE, h |-> h]
    ELSE LET first == substitute_var(Head(nodes), old_var, new_var_name, h)
         IN  IF ~first.ok THEN first
             ELSE SubstituteEach(Tail(nodes), old_var, new_var_name, first.h)

substitute_var(n, old_var, new_var_name, h) ==
    IF Rebinds(n, old_var, h) THEN [ok |-> FALSE, h |-> h]
    ELSE IF n.kind \in {"NotWFF", "ForAllWFF", "ThereExistsWFF"}
    THEN substitute_var(n.child, old_var, new_var_name, h)
    ELSE IF n.kind \in {"AtomicWFF", "FunctionalTerm"}
    THEN SubstituteEach(n.terms, old_var, new_var_name, h)
    ELSE IF n.kind \in {"AndWFF", "OrWFF"}
    THEN SubstituteEach(n.children, old_var, new_var_name, h)
    ELSE IF n.kind = "Variable" /\ Matches(n, old_var, h)
    THEN [ok |-> TRUE, h |-> [h EXCEPT ![n.id] = new_var_name]]
    ELSE [ok |-> TRUE, h |-> h]

RECURSIVE Chain(_)
Chain(seqs) == IF seqs = <<>> THEN <<>> ELSE Head(seqs) \o Chain(Tail(seqs))

\* The pairs bound_iter yields, in the order it yields them. The generator
\* reads only the nodes' kind, bound, child and children, which to_svf never
\* assigns, so the pairs do not depend on when it is resumed.
RECURSIVE bound_iter(_)
bound_iter(n) ==
    LET own == IF IsQuantifier(n)
               THEN [i \in DOMAIN n.bound |-> [v |-> n.bound[i], q |-> n]]
               ELSE <<>>
    IN  IF n.kind \in {"NotWFF", "ForAllWFF", "ThereExistsWFF"}
        THEN own \o bound_iter(n.child)
        ELSE IF n.kind \in {"AndWFF", "OrWFF"}
        THEN Chain([i \in DOMAIN n.children |-> bound_iter(n.children[i])])
        ELSE <<>>

Digits == <<"0", "1", "2", "3", "4", "5", "6", "7", "8", "9">>

IsDigit(c) == \E d \in DOMAIN Digits : Digits[d] = c

\* int(right)
RECURSIVE int(_)
int(right) ==
    IF right = <<>> THEN 0
    ELSE int(SubSeq(right, 1, Len(right) - 1)) * 10
         + (CHOOSE d \in 0..9 : Digits[d + 1] = right[Len(right)])

\* str(n) of a natural number
RECURSIVE decimal(_)
decimal(n) ==
    IF n < 10 THEN <<Digits[n + 1]>>
    ELSE decimal(n \div 10) \o <<Digits[(n % 10) + 1]>>

\* re.search(r"(.*?)(\d+)$", name): the length of the group left, the
\* shortest prefix after which only digits, and at least one, run to the end.
HasMatch(name) == name # <<>> /\ IsDigit(name[Len(name)])

LeftLen(name) ==
    CHOOSE k \in 0..(Len(name) - 1) :
        /\ \A i \in (k + 1)..Len(name) : IsDigit(name[i])
        /\ \A j \in 0..(k - 1) : \E i \in (j + 1)..Len(name) : ~IsDigit(name[i])

\* The match never found: a 0 is appended to every name.
increment_append(name) == name \o <<"0">>

increment(name) ==
    IF ~HasMatch(name) THEN name \o <<"0">>
    ELSE LET left == SubSeq(name, 1, LeftLen(name))
             right == SubSeq(name, LeftLen(name) + 1, Len(name))
         IN  left \o decimal(int(right) + 1)

\* An if in place of the while: the name is incremented at most once.
Unbound_once(name, bound_names) ==
    IF name \in bound_names THEN increment(name) ELSE name

\* Lines 210-211: while name in already_bound: name = increment(name)
RECURSIVE Unbound(_, _)
Unbound(name, bound_names) ==
    IF name \in bound_names THEN Unbound(increment(name), bound_names) ELSE name

\* v.name assigned before the substitution instead of after it.
Renamed_name_first(v, qn, name, h) ==
    LET sub == substitute_var(qn.child, v, name, [h EXCEPT ![v.id] = name])
    IN  [ok |-> sub.ok, h |-> sub.h]

\* Lines 212-213: substitute_var(q.child, v, name); v.name = name
Renamed(v, qn, name, h) ==
    LET sub == substitute_var(qn.child, v, name, h)
    IN  IF sub.ok THEN [ok |-> TRUE, h |-> [sub.h EXCEPT ![v.id] = name]]
        ELSE sub

-----------------------------------------------------------------------------
(* The formulas the caller builds *)

\* The atom the caller starts from: r(f(x), x0).
Atoms == {AtomicWFF(r, <<FunctionalTerm(fn, <<x>>), x0>>)}

BoundLists == {<<x>>, <<x0>>, <<x, x0>>}

\* One more node over the formulas of sub, or over a pair of lefts and rights.
Over(sub) ==
    {NotWFF(c) : c \in sub}
    \cup {ForAllWFF(b, c) : b \in BoundLists, c \in sub}
    \cup {ThereExistsWFF(b, c) : b \in BoundLists, c \in sub}

Joining(lefts, rights) ==
    {AndWFF(<<a, b>>) : a \in lefts, b \in rights}
    \cup {OrWFF(<<a, b>>) : a \in lefts, b \in rights}

\* The formulas over Atoms with exactly n connective and quantifier nodes.
RECURSIVE WffsOf(_)
WffsOf(n) ==
    IF n = 0 THEN Atoms
    ELSE Over(WffsOf(n - 1))
         \cup UNION {Joining(WffsOf(i), WffsOf(n - 1 - i)) : i \in 0..(n - 1)}

\* The formulas a conjunction or disjunction is built with, by their size.
Built_before == [n \in 0..MaxNodes |-> WffsOf(n)]

\* The number of connective and quantifier nodes of a formula.
RECURSIVE Nodes(_)
Nodes(n) ==
    IF n.kind = "NotWFF" \/ n.kind = "ForAllWFF" \/ n.kind = "ThereExistsWFF"
    THEN 1 + Nodes(n.child)
    ELSE IF n.kind = "AndWFF" \/ n.kind = "OrWFF"
    THEN 1 + Nodes(Head(n.children)) + Nodes(n.children[Len(n.children)])
    ELSE 0

\* Lines 229-234: the formula of the module's demonstration.
wff ==
    OrWFF(<<NotWFF(ForAllWFF(<<x>>, AtomicWFF(p, <<x>>))),
            ThereExistsWFF(<<x, y>>,
                OrWFF(<<NotWFF(AtomicWFF(p, <<y>>)), AtomicWFF(q, <<x>>)>>))>>)

\* Lines 222-224: the first formula the module prints.
notwff ==
    NotWFF(OrWFF(<<AtomicWFF(p, <<x>>),
                   AndWFF(<<AtomicWFF(p, <<y>>), AtomicWFF(q, <<z>>)>>)>>))

\* Larger formulas: a binding renamed to the name an inner quantifier binds,
\* a name bound again by an inner quantifier after an earlier binding was
\* renamed, a numeric suffix that carries, three bindings of one name, an
\* empty and a one-element conjunction, a fourfold negation.
LargerWffs ==
    { wff, notwff,
      AndWFF(<<ForAllWFF(<<x>>, AtomicWFF(p, <<x>>)),
               ForAllWFF(<<x>>, ThereExistsWFF(<<x0>>,
                   AtomicWFF(r, <<FunctionalTerm(fn, <<x>>), x0>>)))>>),
      AndWFF(<<ForAllWFF(<<x>>, AtomicWFF(p, <<x>>)),
               ForAllWFF(<<x, x0>>, ThereExistsWFF(<<x0>>,
                   AtomicWFF(r, <<FunctionalTerm(fn, <<x>>), x0>>)))>>),
      OrWFF(<<ForAllWFF(<<x9>>, AtomicWFF(p, <<x9>>)),
              NotWFF(ThereExistsWFF(<<x9>>, AtomicWFF(q, <<x9>>)))>>),
      OrWFF(<<ForAllWFF(<<x>>, AtomicWFF(p, <<x>>)),
              ThereExistsWFF(<<x>>, AtomicWFF(q, <<x>>)),
              ForAllWFF(<<x>>, AtomicWFF(r, <<x, y>>))>>),
      NotWFF(AndWFF(<<AndWFF(<<>>), OrWFF(<<AtomicWFF(p, <<y>>)>>)>>)),
      NotWFF(NotWFF(NotWFF(NotWFF(
          OrWFF(<<AtomicWFF(p, <<x>>), AtomicWFF(q, <<y>>)>>))))) }

\* Nodes outside the closed set of variants: an instance of the base class WFF,
\* a Variable where a formula is expected, an atom over an instance of Term.
ForeignLeaves == {BaseWFF, x, AtomicWFF(p, <<BaseTerm>>)}

ForeignWffs ==
    ForeignLeaves
    \cup Over(ForeignLeaves)
    \cup Joining(ForeignLeaves, Atoms \cup ForeignLeaves)
    \cup Joining(Atoms, ForeignLeaves)

FirstWffs == Atoms \cup LargerWffs \cup ForeignWffs

-----------------------------------------------------------------------------
(* The runs: to_nnf(f), then to_svf of its result, or to_svf(f) *)

NotCalled == [kind |-> "None"]

Init ==
    /\ heap = OrigHeap
    /\ f \in FirstWffs
    /\ g = NotCalled
    /\ pc = "raw"
    /\ arg = NotCalled
    /\ node = NotCalled
    /\ it = 0
    /\ already_bound = {}
    /\ err = "none"

\* The caller builds a larger formula from f, as lines 222-224 and 230-234 do:
\* a negation or a quantifier over it, or a conjunction or disjunction of it
\* and a formula built before.
Construct ==
    /\ pc = "raw"
    /\ f \in Atoms \/ (f \notin FirstWffs /\ Nodes(f) < MaxNodes)
    /\ \/ f' \in Over({f})
       \/ \E n \in 0..(MaxNodes - Nodes(f) - 1) : \E b \in Built_before[n] :
                f' \in Joining({f}, {b}) \cup Joining({b}, {f})
    /\ UNCHANGED <<heap, g, pc, arg, node, it, already_bound, err>>

\* wff = to_nnf(wff)
CallToNnf ==
    /\ pc = "raw"
    /\ g' = to_nnf(f)
    /\ pc' = IF IsRaised(g') THEN "failed" ELSE "nnf"
    /\ err' = IF IsRaised(g') THEN "NNF: Invalid type" ELSE err
    /\ UNCHANGED <<heap, f, arg, node, it, already_bound>>

\* to_svf is entered: node = node.clone(); already_bound = set()
EnterToSvf ==
    /\ pc \in {"raw", "nnf"}
    /\ arg' = IF pc = "raw" THEN f ELSE g
    /\ LET copy == clone(arg', heap)
       IN  IF copy.ok
           THEN /\ node' = copy.n
                /\ heap' = copy.h
                /\ pc' = "svf"
                /\ it' = 1
                /\ err' = err
           ELSE /\ node' = node
                /\ heap' = heap
                /\ pc' = "failed"
                /\ it' = it
                /\ err' = "NotImplementedError"
    /\ already_bound' = {}
    /\ UNCHANGED <<f, g>>

\* One pass of the loop "for v,q in bound_iter(node)"
BindNext ==
    /\ pc = "svf"
    /\ it <= Len(bound_iter(node))
    /\ LET v == bound_iter(node)[it].v
           qn == bound_iter(node)[it].q
           name == Unbound(heap[v.id], already_bound)
           done == Renamed(v, qn, name, heap)
       IN  /\ heap' = done.h
           /\ IF done.ok
              THEN /\ already_bound' = already_bound \cup {name}
                   /\ it' = it + 1
                   /\ pc' = pc
                   /\ err' = err
              ELSE /\ already_bound' = already_bound
                   /\ it' = it
                   /\ pc' = "failed"
                   /\ err' = "Recursive Binding"
    /\ UNCHANGED <<f, g, arg, node>>

\* The generator is exhausted: return node
ReturnFromToSvf ==
    /\ pc = "svf"
    /\ it > Len(bound_iter(node))
    /\ pc' = "returned"
    /\ UNCHANGED <<heap, f, g, arg, node, it, already_bound, err>>

Next == Construct \/ CallToNnf \/ EnterToSvf \/ BindNext \/ ReturnFromToSvf

Spec == Init /\ [][Next]_vars

-----------------------------------------------------------------------------
(* Vocabulary of the properties *)

FormulaKinds == {"AtomicWFF", "NotWFF", "AndWFF", "OrWFF", "ForAllWFF", "ThereExistsWFF"}

\* Every formula node of n is of the closed set of variants.
RECURSIVE WffClosed(_)
WffClosed(n) ==
    /\ n.kind \in FormulaKinds
    /\ n.kind = "NotWFF" => WffClosed(n.child)
    /\ n.kind \in {"AndWFF", "OrWFF"} =>
            \A i \in DOMAIN n.children : WffClosed(n.children[i])
    /\ IsQuantifier(n) => WffClosed(n.child)

RECURSIVE TermClosed(_)
TermClosed(t) ==
    \/ t.kind = "Variable"
    \/ /\ t.kind = "FunctionalTerm"
       /\ \A i \in DOMAIN t.terms : TermClosed(t.terms[i])

\* Every node of n, terms included, is of the closed sets of variants.
RECURSIVE Closed(_)
Closed(n) ==
    /\ n.kind \in FormulaKinds
    /\ n.kind = "AtomicWFF" => \A i \in DOMAIN n.terms : TermClosed(n.terms[i])
    /\ n.kind = "NotWFF" => Closed(n.child)
    /\ n.kind \in {"AndWFF", "OrWFF"} =>
            \A i \in DOMAIN n.children : Closed(n.children[i])
    /\ IsQuantifier(n) => Closed(n.child)

\* The direct parts of a node, in document order: a quantifier's child, a
\* negation's child, the children of a conjunction or disjunction.
Parts(n) ==
    IF n.kind \in {"NotWFF", "ForAllWFF", "ThereExistsWFF"} THEN <<n.child>>
    ELSE IF n.kind \in {"AndWFF", "OrWFF"} THEN n.children
    ELSE <<>>

\* The Variable leaves of the arguments of a term or an atom, left to right.
RECURSIVE TermVariables(_)
TermVariables(t) ==
    IF t.kind = "Variable" THEN <<t>>
    ELSE IF t.kind \in {"AtomicWFF", "FunctionalTerm"}
    THEN Chain([i \in DOMAIN t.terms |-> TermVariables(t.terms[i])])
    ELSE <<>>

\* Every entry of every bound list of n, in document order.
RECURSIVE Bindings(_)
Bindings(n) ==
    (IF IsQuantifier(n) THEN n.bound ELSE <<>>)
    \o Chain([i \in DOMAIN Parts(n) |-> Bindings(Parts(n)[i])])

NamesOf(variables, h) == [i \in DOMAIN variables |-> h[variables[i].id]]

Distinct(names) ==
    \A i, j \in DOMAIN names : names[i] = names[j] => i = j

\* The formula with each Variable replaced by the name it carries / by a blank.
RECURSIVE Reading(_, _, _)
Reading(n, h, named) ==
    CASE n.kind = "Variable" ->
            IF named THEN [kind |-> "Variable", name |-> h[n.id]]
            ELSE [kind |-> "Variable"]
      [] n.kind \in {"AtomicWFF", "FunctionalTerm"} ->
            [n EXCEPT !.terms = [i \in DOMAIN n.terms |-> Reading(n.terms[i], h, named)]]
      [] n.kind = "NotWFF" -> [n EXCEPT !.child = Reading(n.child, h, named)]
      [] n.kind \in {"AndWFF", "OrWFF"} ->
            [n EXCEPT !.children =
                [i \in DOMAIN n.children |-> Reading(n.children[i], h, named)]]
      [] IsQuantifier(n) ->
            [n EXCEPT !.bound = [i \in DOMAIN n.bound |-> Reading(n.bound[i], h, named)],
                      !.child = Reading(n.child, h, named)]
      [] OTHER -> n

Named(n, h) == Reading(n, h, TRUE)

Shape(n) == Reading(n, <<>>, FALSE)

\* For each Variable occurrence in an atom, in document order: its name, and
\* the quantifier that binds it, as <<how many quantifiers enclose that
\* quantifier plus one, position in its bound list>>, or <<0, 0>> when free.
\* scopes lists the bound names of the enclosing quantifiers, outermost first.
Binder(name, scopes) ==
    IF \A k \in DOMAIN scopes : \A i \in DOMAIN scopes[k] : scopes[k][i] # name
    THEN <<0, 0>>
    ELSE LET k == CHOOSE k \in DOMAIN scopes :
                    /\ \E i \in DOMAIN scopes[k] : scopes[k][i] = name
                    /\ \A m \in DOMAIN scopes :
                          (\E i \in DOMAIN scopes[m] : scopes[m][i] = name) => m <= k
         IN  <<k, CHOOSE i \in DOMAIN scopes[k] : scopes[k][i] = name>>

RECURSIVE Occurrences(_, _, _)
Occurrences(n, h, scopes) ==
    IF n.kind = "AtomicWFF"
    THEN LET leaves == TermVariables(n)
         IN  [i \in DOMAIN leaves |->
                [name |-> h[leaves[i].id], binder |-> Binder(h[leaves[i].id], scopes)]]
    ELSE LET inner == IF IsQuantifier(n)
                      THEN Append(scopes, NamesOf(n.bound, h))
                      ELSE scopes
         IN  Chain([i \in DOMAIN Parts(n) |-> Occurrences(Parts(n)[i], h, inner)])

\* Some quantifier of n binds a name that a quantifier enclosing it binds.
RECURSIVE NestedRebinding(_, _, _)
NestedRebinding(n, h, enclosing) ==
    \/ /\ IsQuantifier(n)
       /\ \E i \in DOMAIN n.bound : h[n.bound[i].id] \in enclosing
    \/ LET inner == IF IsQuantifier(n)
                    THEN enclosing \cup {h[n.bound[i].id] : i \in DOMAIN n.bound}
                    ELSE enclosing
       IN  \E i \in DOMAIN Parts(n) : NestedRebinding(Parts(n)[i], h, inner)

\* to_nnf was called and has ended / to_svf was called and has ended.
NnfEnded == pc = "nnf" \/ (pc = "failed" /\ err = "NNF: Invalid type")

SvfEnded == arg # NotCalled /\ pc \in {"returned", "failed"}

SvfReturned == pc = "returned"

-----------------------------------------------------------------------------
(* Properties of to_nnf *)

RECURSIVE NegationsOnAtoms(_)
NegationsOnAtoms(n) ==
    /\ n.kind = "NotWFF" => n.child.kind = "AtomicWFF"
    /\ n.kind # "NotWFF" => \A i \in DOMAIN Parts(n) : NegationsOnAtoms(Parts(n)[i])

RECURSIVE HasKind(_, _)
HasKind(n, kind) ==
    \/ n.kind = kind
    \/ \E i \in DOMAIN Parts(n) : HasKind(Parts(n)[i], kind)

\* C1: for a formula built only from the six formula variants, to_nnf returns
\* a formula in which the child of every Not is an Atomic.
C1_NegationsOnAtoms ==
    (NnfEnded /\ WffClosed(f)) => (~IsRaised(g) /\ NegationsOnAtoms(g))

\* A negated conjunction or disjunction or quantifier was transformed, and
\* negations remain in the result.
C1_Witness ==
    /\ NnfEnded
    /\ f.kind = "NotWFF"
    /\ f.child.kind \in {"AndWFF", "OrWFF", "ForAllWFF", "ThereExistsWFF"}
    /\ HasKind(g, "NotWFF")

\* C5: to_nnf is idempotent: to_nnf(to_nnf(f)) is structurally equal to
\* to_nnf(f), Variable objects included.
C5_Idempotent ==
    (NnfEnded /\ WffClosed(f)) => to_nnf(g) = g

\* to_nnf changed the formula it was given, by more than one negation.
C5_Witness ==
    /\ NnfEnded
    /\ ~IsRaised(g)
    /\ HasKind(f, "NotWFF")
    /\ g # f
    /\ f.kind = "NotWFF" => g # f.child
    /\ to_nnf(g) = g

Dual(kind) ==
    CASE kind = "AndWFF" -> "OrWFF"
      [] kind = "OrWFF" -> "AndWFF"
      [] kind = "ForAllWFF" -> "ThereExistsWFF"
      [] kind = "ThereExistsWFF" -> "ForAllWFF"

\* The atoms, conjunctions, disjunctions and quantifiers of n in document
\* order (a node, then its parts), as the parity rule says they are to come
\* out: odd tells whether an odd number of Not nodes lies above n.
RECURSIVE Expected(_, _)
Expected(n, odd) ==
    CASE n.kind = "AtomicWFF" -> <<[atom |-> n, negated |-> odd]>>
      [] n.kind = "NotWFF" -> Expected(n.child, ~odd)
      [] n.kind \in {"AndWFF", "OrWFF"} ->
            <<[kind |-> IF odd THEN Dual(n.kind) ELSE n.kind,
               children |-> Len(n.children)]>>
            \o Chain([i \in DOMAIN n.children |-> Expected(n.children[i], odd)])
      [] IsQuantifier(n) ->
            <<[kind |-> IF odd THEN Dual(n.kind) ELSE n.kind, bound |-> n.bound]>>
            \o Expected(n.child, odd)

\* The same list read off a result: a Not over an atom is a negated atom, any
\* other Not is listed as such.
RECURSIVE Listed(_)
Listed(n) ==
    CASE n.kind = "AtomicWFF" -> <<[atom |-> n, negated |-> FALSE]>>
      [] n.kind = "NotWFF" /\ n.child.kind = "AtomicWFF" ->
            <<[atom |-> n.child, negated |-> TRUE]>>
      [] n.kind = "NotWFF" /\ n.child.kind # "AtomicWFF" ->
            <<[kind |-> "NotWFF"]>> \o Listed(n.child)
      [] n.kind \in {"AndWFF", "OrWFF"} ->
            <<[kind |-> n.kind, children |-> Len(n.children)]>>
            \o Chain([i \in DOMAIN n.children |-> Listed(n.children[i])])
      [] IsQuantifier(n) ->
            <<[kind |-> n.kind, bound |-> n.bound]>> \o Listed(n.child)

\* C10: to_nnf(f) has the atoms and the bound lists of f in the same order; an
\* atom is negated in it exactly when it lies under an odd number of Not nodes
\* in f, and an And, Or, ForAll or ThereExists of f comes out as its dual
\* exactly when it lies under an odd number of Not nodes.
C10_NegationParity ==
    (NnfEnded /\ WffClosed(f)) => (~IsRaised(g) /\ Listed(g) = Expected(f, FALSE))

\* A formula with a connective under one Not and an atom under two.
C10_Witness ==
    /\ NnfEnded
    /\ f.kind = "NotWFF"
    /\ f.child.kind \in {"AndWFF", "OrWFF"}
    /\ \E i \in DOMAIN f.child.children : f.child.children[i].kind = "NotWFF"
    /\ g.kind = Dual(f.child.kind)

-----------------------------------------------------------------------------
(* Properties of to_svf *)

OldNames == NamesOf(Bindings(arg), heap)

NewNames == NamesOf(Bindings(node), heap)

OldOccurrences == Occurrences(arg, heap, <<>>)

NewOccurrences == Occurrences(node, heap, <<>>)

\* The occurrences of the result are bound as those of the input were.
SameBinders(old, new) ==
    /\ Len(new) = Len(old)
    /\ \A i \in DOMAIN old : new[i].binder = old[i].binder

\* The occurrences free in the input have kept their names.
SameFreeNames(old, new) ==
    /\ Len(new) = Len(old)
    /\ \A i \in DOMAIN old : old[i].binder = <<0, 0>> => new[i].name = old[i].name

\* Each name of new is the first of old, its increment, the increment of
\* that, ... that is no earlier name of new.
FirstFree(old, new, step(_, _)) ==
    /\ Len(new) = Len(old)
    /\ \A i \in DOMAIN old :
        LET earlier == {new[j] : j \in 1..(i - 1)}
        IN  \E k \in 0..(i - 1) :
                /\ new[i] = step(old[i], k)
                /\ new[i] \notin earlier
                /\ \A m \in 0..(k - 1) : step(old[i], m) \in earlier

\* C2: when to_svf returns, the names of all entries of all bound lists of the
\* result are pairwise distinct (stated for every input, in negation normal
\* form or not).
C2_BoundNamesDistinct ==
    SvfReturned => Distinct(NewNames)

\* to_svf returned on the result of to_nnf, where a name was bound twice.
C2_Witness ==
    /\ SvfReturned
    /\ arg = g
    /\ NegationsOnAtoms(arg)
    /\ ~Distinct(OldNames)

\* C3: to_svf renames without capture: every Variable occurrence in an atom is
\* bound in the result by the quantifier, and the bound-list entry, that bound
\* it in the input, and an occurrence free in the input is free in the result.
C3_NoCapture ==
    SvfReturned => SameBinders(OldOccurrences, NewOccurrences)

\* C4: when to_svf returns, the result has the shape of the input (kinds,
\* predicate and function symbols, number and order of children, arguments
\* and bound-list entries), and every occurrence free in the input has kept
\* its name.
C4_ShapeAndFreeNames ==
    SvfReturned =>
        /\ Shape(node) = Shape(arg)
        /\ SameFreeNames(OldOccurrences, NewOccurrences)

\* to_svf renamed a binding of a formula in which a Variable occurs free.
C4_Witness ==
    /\ SvfReturned
    /\ NewNames # OldNames
    /\ \E i \in DOMAIN OldOccurrences : OldOccurrences[i].binder = <<0, 0>>
    /\ \E i \in DOMAIN OldOccurrences : OldOccurrences[i].binder # <<0, 0>>

\* C6: to_svf fails with "Recursive Binding" exactly when a quantifier of its
\* input binds a name that a quantifier enclosing it binds: such an input
\* never yields a result, and without such a quantifier the error is never
\* raised, whatever names the earlier bindings were given.
C6_RecursiveBindingExactly ==
    SvfEnded =>
        /\ NestedRebinding(arg, heap, {}) => pc = "failed"
        /\ err = "Recursive Binding" => NestedRebinding(arg, heap, {})
        /\ Closed(arg) => (err = "Recursive Binding" <=> NestedRebinding(arg, heap, {}))

\* The error was raised after an earlier binding had been renamed.
C6_Witness ==
    /\ SvfEnded
    /\ err = "Recursive Binding"
    /\ it > 1
    /\ \E i \in 1..(it - 1) : NewNames[i] # OldNames[i]

\* Every Variable object of n.
RECURSIVE Variables(_)
Variables(n) ==
    IF n.kind = "Variable" THEN {n.id}
    ELSE IF n.kind \in {"AtomicWFF", "FunctionalTerm"}
    THEN UNION {Variables(n.terms[i]) : i \in DOMAIN n.terms}
    ELSE (IF IsQuantifier(n) THEN {n.bound[i].id : i \in DOMAIN n.bound} ELSE {})
         \cup UNION {Variables(Parts(n)[i]) : i \in DOMAIN Parts(n)}

\* C7: to_svf changes no formula but the tree it returns: in every state,
\* also part-way through the renaming and after a failure, the Variable
\* objects of f and of to_nnf(f) carry the names they were built with, f and
\* to_nnf(f) render as before, and the tree to_svf works on shares no
\* Variable object with them.
C7_InputsUntouched ==
    /\ \A i \in DOMAIN OrigHeap : heap[i] = OrigHeap[i]
    /\ Variables(f) \subseteq DOMAIN OrigHeap
    /\ Closed(f) => str(f, heap) = str(f, OrigHeap)
    /\ (NnfEnded /\ Closed(f)) => str(g, heap) = str(g, OrigHeap)
    /\ node # NotCalled =>
            Variables(node) \cap (Variables(arg) \cup Variables(f)) = {}

\* to_svf(to_nnf(f)) failed after it had renamed occurrences in its clone.
C7_Witness ==
    /\ SvfEnded
    /\ arg = g
    /\ pc = "failed"
    /\ node # NotCalled
    /\ Named(node, heap) # Named(arg, heap)

\* C8: both transforms fail on a node outside the closed set of variants:
\* to_nnf on such a formula node, to_svf on such a node anywhere in its input.
C8_UnsupportedFails ==
    /\ (NnfEnded /\ ~WffClosed(f)) => IsRaised(g)
    /\ (SvfEnded /\ ~Closed(arg)) => pc = "failed"

\* The increment of the naming rule: one more than the value of the maximal
\* trailing run of digits, or a 0 appended when the name ends in no digit.
TrailingRun(name) ==
    CHOOSE k \in 0..Len(name) :
        /\ \A i \in (Len(name) - k + 1)..Len(name) : IsDigit(name[i])
        /\ k < Len(name) => ~IsDigit(name[Len(name) - k])

RuleIncrement(name) ==
    IF TrailingRun(name) = 0 THEN Append(name, "0")
    ELSE SubSeq(name, 1, Len(name) - TrailingRun(name))
         \o decimal(int(SubSeq(name, Len(name) - TrailingRun(name) + 1, Len(name))) + 1)

RECURSIVE RuleIncrements(_, _)
RuleIncrements(name, k) ==
    IF k = 0 THEN name ELSE RuleIncrements(RuleIncrement(name), k - 1)

\* C9: the bindings are named in document order, and the final name of each
\* is the first of n, increment(n), increment(increment(n)), ... (n its
\* original name) that is not the final name of an earlier binding;
\* increment turns x into x0, x0 into x1 and x9 into x10. An input whose
\* bound names are pairwise distinct is returned structurally equal.
C9_NamingRule ==
    /\ increment(<<"x">>) = <<"x", "0">>
    /\ increment(<<"x", "0">>) = <<"x", "1">>
    /\ increment(<<"x", "9">>) = <<"x", "1", "0">>
    /\ SvfReturned =>
        /\ FirstFree(OldNames, NewNames, RuleIncrements)
        /\ Distinct(OldNames) => Named(node, heap) = Named(arg, heap)

\* to_svf returned after renaming a binding by a carry, from x9 to x10.
C9_Witness ==
    /\ SvfReturned
    /\ \E i \in DOMAIN OldNames :
            OldNames[i] = <<"x", "9">> /\ NewNames[i] = <<"x", "1", "0">>

====
